---- MODULE Spec2Model ----
(***************************************************************************)
(* State-machine model of hyperion's messaging core                        *)
(* (src/hyperion/lib/networking/server.py): the UI server (Server) and the *)
(* slave management server (SlaveManagementServer), each with its reactor  *)
(* thread and the worker threads it starts for decoded actions, the        *)
(* master-side operations that enqueue frames for slaves, and the events   *)
(* that travel from the slave server's notify queue to the UI clients.     *)
(*                                                                         *)
(* Granularity.  A step is one callback of a reactor (accept, read, the    *)
(* two halves of write, the stages of _process_events), one worker         *)
(* thread's handler (two halves for _forward_event, whose two writes go to *)
(* different shared objects), one fire-and-forget master-side call, or one *)
(* iteration of a polling loop that sleeps (check_component, _quit).  A    *)
(* scan of the registry inside one of these is taken as a whole, except   *)
(* in UIFanOutBegin and UIFanOutStep, which take the fan-out loop of       *)
(* _process_events one iteration at a time.  recvall is modelled on its    *)
(* own, one loop iteration per step, on the packets a socket delivers.     *)
(*                                                                         *)
(* Spec runs every thread.  The specifications after it run the threads    *)
(* that one operation involves, from the same initial state.               *)
(***************************************************************************)
EXTENDS Integers, Sequences, FiniteSets, Bags, TLC

\* ------------------------------------------------------------------ bounds
MaxSlaveConns == 2      \* slave sockets that may ever be accepted
MaxUIConns == 2         \* UI sockets that may ever be accepted
MaxQueue == 2           \* frames / events a queue may hold at once
MaxWorkers == 2         \* worker threads of one server alive at once
MaxWait == 0            \* largest component_wait (seconds) a caller passes
MaxCallers == 2         \* master-side threads that call check_component
MaxLen == 2             \* largest n of recvall, and bytes in one packet
MaxPackets == 2         \* packets that reach the socket during one recvall
StartSlavePolls == 2    \* polls of start_slave that fit before its deadline

SlaveConns == 1..MaxSlaveConns
UIConns == 1..MaxUIConns
Callers == 1..MaxCallers
Hosts == {"h1", "h2"}
Comps == {"c1"}
Waits == 0..MaxWait
\* bytes, packets and streams of packets handed to recvall
Bytes == {"a", "b"}
Packets == UNION {[1..k -> Bytes] : k \in 1..MaxLen}
Streams == UNION {[1..k -> Packets] : k \in 0..MaxPackets}
\* custom_messages a caller of start_slave passes: lists of framed actions
CustomMessages == {<<>>, <<"m1">>, <<"m1", "m2">>}
None == "None"

\* ------------------------------------------------------------ config.py
RUNNING == "RUNNING"
STOPPED == "STOPPED"
UNREACHABLE == "UNREACHABLE"
\* the check state a slave reports in the model's CheckEvents; the server
\* only ever tests a reported state against None
ReportedStates == {RUNNING}

\* ------------------------------------------------------- events, frames
CheckEvent(comp_id, check_state) ==
    [type |-> "CheckEvent", comp_id |-> comp_id, check_state |-> check_state]

DisconnectEvent(host_name) ==
    [type |-> "DisconnectEvent", host_name |-> host_name]

SlaveReconnectEvent(host_name, port) ==
    [type |-> "SlaveReconnectEvent", host_name |-> host_name, port |-> port]

SlaveDisconnectEvent(host_name, port) ==
    [type |-> "SlaveDisconnectEvent", host_name |-> host_name, port |-> port]

\* events a slave may send in a queue_event frame
SlaveSentEvents ==
    {CheckEvent(c, s) : c \in Comps, s \in ReportedStates}
        \cup {DisconnectEvent(h) : h \in Hosts}

\* actionSerializer.serialize_request(action, payload): the framed message
serialize_request(action, payload) == [action |-> action, args |-> payload]

\* a dict: d[k] = v, and d.get(k)
Put(d, k, v) == [x \in (DOMAIN d) \cup {k} |-> IF x = k THEN v ELSE d[x]]
Get(d, k) == IF k \in DOMAIN d THEN d[k] ELSE None
EmptyDict == [x \in {} |-> None]

VARIABLES
    slave_conn,          \* socket of each slave connection: absent/open/closed
    slave_send_queues,   \* keys of SlaveManagementServer.send_queues
    slave_queue,         \* contents of the queue.Queue made for each connection
    slave_sel,           \* connections registered with the selector
    slave_keep_running,
    port_mapping,        \* connection -> hostname (dict)
    notify_queue,
    check_buffer,        \* comp_id -> check state or None (dict)
    slave_workers,       \* bag of worker threads started by read, not finished
    slave_pc,            \* reactor thread: loop / write / exited / crashed
    slave_next_msg,      \* write(): <<connection, next_msg>> taken, not yet sent
    slave_enq,           \* history: frames put on each connection's queue, in order
    slave_wire,          \* history: frames passed to connection.sendall, in order
    last_result,         \* how the last fire-and-forget master call ended
    cc,                  \* per caller thread: its check_component call
    quit_pc,             \* SlaveManagementServer._quit: idle / drain / done
    quit_copy,           \* _quit: queues of the copy still to be waited for
    quit_begin,          \* history: for each connection of _quit's copy, the
                         \* frames put on its queue before _quit began and
                         \* those of them still on the queue then
    ss,                  \* the start_slave call of the master thread
    slave_log_handlers,  \* keys of SlaveManagementServer.slave_log_handlers
    ui_conn,             \* socket of each UI connection: absent/open/closed
    ui_send_queues,      \* keys of Server.send_queues
    ui_queue,            \* contents of the queue.Queue made for each connection
    ui_sel,              \* connections registered with the selector
    ui_keep_running,
    event_queue,         \* Server.event_queue, subscribed to the ControlCenter
    host_states,         \* cc.host_states
    ui_workers,          \* bag of worker threads started by read, not finished
    ui_pc,               \* reactor thread: loop / write / join / events /
                         \* host_state / exited / crashed
    ui_next_msg,         \* write(): <<connection, next_msg>> taken, not yet sent
    ui_event,            \* _process_events: the event being handled
    ui_enq,              \* history: frames put on each connection's queue
    ui_wire,             \* history: frames passed to connection.sendall
    ui_iter,             \* _process_events: the iterator of the fan-out loop
                         \* over send_queues.values(), when it runs stepwise
    rv                   \* a call of recvall: its locals and the socket it reads

slave_vars == <<slave_conn, slave_send_queues, slave_queue, slave_sel,
                slave_keep_running, port_mapping, notify_queue, check_buffer,
                slave_workers, slave_pc, slave_next_msg, slave_enq, slave_wire,
                last_result, cc, quit_pc, quit_copy,
                quit_begin, ss, slave_log_handlers>>

ui_vars == <<ui_conn, ui_send_queues, ui_queue, ui_sel, ui_keep_running,
             event_queue, host_states, ui_workers, ui_pc, ui_next_msg, ui_event,
             ui_enq, ui_wire, ui_iter>>

vars == <<slave_vars, ui_vars, rv>>

IdleCall == [pc |-> "idle", comp_id |-> None, end_t |-> 0, ret |-> None,
             sent |-> 0, answer |-> None]

\* no recvall call in progress
IdleRecv == [pc |-> "idle", n |-> 0, data |-> <<>>, stream |-> <<>>,
             closed |-> FALSE, sent |-> <<>>, eof |-> FALSE]

\* no start_slave call in progress
IdleStart == [pc |-> "idle", hostname |-> None, custom_messages |-> <<>>,
              polls |-> 0, ret |-> None]

\* cc.host_states values: (last seen, connection state)
CONNECTED == <<1, "CONNECTED">>
DISCONNECTED == <<0, "DISCONNECTED">>


Init ==
    /\ slave_conn = [c \in SlaveConns |-> "absent"]
    /\ slave_send_queues = {}
    /\ slave_queue = [c \in SlaveConns |-> <<>>]
    /\ slave_sel = {}
    /\ slave_keep_running = TRUE
    /\ port_mapping = EmptyDict
    /\ notify_queue = <<>>
    /\ check_buffer = EmptyDict
    /\ slave_workers = EmptyBag
    /\ slave_pc = "loop"
    /\ slave_next_msg = <<>>
    /\ slave_enq = [c \in SlaveConns |-> <<>>]
    /\ slave_wire = [c \in SlaveConns |-> <<>>]
    /\ last_result = None
    /\ cc = [k \in Callers |-> IdleCall]
    /\ quit_pc = "idle"
    /\ quit_copy = <<>>
    /\ quit_begin = [c \in SlaveConns |-> [enq |-> <<>>, pending |-> <<>>]]
    /\ ss = IdleStart
    /\ slave_log_handlers = {}
    /\ ui_conn = [c \in UIConns |-> "absent"]
    /\ ui_send_queues = {}
    /\ ui_queue = [c \in UIConns |-> <<>>]
    /\ ui_sel = {}
    /\ ui_keep_running = TRUE
    /\ event_queue = <<>>
    /\ host_states = [h \in Hosts |-> CONNECTED]
    /\ ui_workers = EmptyBag
    /\ ui_pc = "loop"
    /\ ui_next_msg = <<>>
    /\ ui_event = <<>>
    /\ ui_enq = [c \in UIConns |-> <<>>]
    /\ ui_wire = [c \in UIConns |-> <<>>]
    /\ ui_iter = <<>>
    /\ rv = IdleRecv

\* ------------------------------------------------------------- helpers
Min(S) == CHOOSE x \in S : \A y \in S : x <= y

\* the keys of a dict in insertion order; connections are numbered in the
\* order accept() creates them, so insertion order is ascending order
RECURSIVE InOrder(_)
InOrder(S) == IF S = {} THEN <<>> ELSE <<Min(S)>> \o InOrder(S \ {Min(S)})

\* queue.Queue.put(msg) on the queue of every connection in S
QueuePut(q, S, msg) == [c \in DOMAIN q |-> IF c \in S THEN Append(q[c], msg) ELSE q[c]]

\* the model's cap on the frames one connection's queue is ever given
Room(enq, S) == \A c \in S : Len(enq[c]) < MaxQueue

\* ------------------------------------------------------------- recvall
\* the bytes of a sequence of packets, in order
RECURSIVE Flatten(_)
Flatten(packets) ==
    IF packets = <<>> THEN <<>> ELSE Head(packets) \o Flatten(Tail(packets))

\* recvall(connection, n) is called. stream holds the packets that reach
\* the socket during the call, in order; closed tells whether the peer has
\* closed the connection behind them. data = b""
RecvallCall(n, stream, closed) ==
    /\ rv.pc = "idle"
    /\ rv' = [pc |-> "loop", n |-> n, data |-> <<>>, stream |-> stream,
              closed |-> closed, sent |-> Flatten(stream), eof |-> FALSE]
    /\ UNCHANGED <<slave_vars, ui_vars>>

\* what connection.recv(bufsize) returns when bytes are there: at most
\* bufsize bytes from the front of the oldest packet
RecvPacket(stream, bufsize) ==
    SubSeq(Head(stream), 1, Min({bufsize, Len(Head(stream))}))

\* the packets left after recv(bufsize) has taken RecvPacket
RecvRest(stream, bufsize) ==
    IF bufsize >= Len(Head(stream))
    THEN Tail(stream)
    ELSE <<SubSeq(Head(stream), bufsize + 1, Len(Head(stream)))>> \o Tail(stream)

\* recvall, the while test and one iteration:
\*     while len(data) < n:
\*         packet = connection.recv(n - len(data)); data += packet
\*     return data
\* With no bytes there, recv on the non-blocking socket returns b"" when
\* the peer has closed, and the loop goes on with data unchanged; it raises
\* BlockingIOError when the peer has not.
RecvallStep ==
    /\ rv.pc = "loop"
    /\ IF Len(rv.data) >= rv.n
       THEN rv' = [rv EXCEPT !.pc = "returned"]
       ELSE IF rv.stream # <<>>
       THEN rv' = [rv EXCEPT
                     !.data = @ \o RecvPacket(rv.stream, rv.n - Len(rv.data)),
                     !.stream = RecvRest(rv.stream, rv.n - Len(rv.data))]
       ELSE IF rv.closed
       THEN rv' = [rv EXCEPT !.eof = TRUE]
       ELSE rv' = [rv EXCEPT !.pc = "raised"]
    /\ UNCHANGED <<slave_vars, ui_vars>>

\* the caller has taken what recvall returned or raised
RecvallDone ==
    /\ rv.pc \in {"returned", "raised"}
    /\ rv' = IdleRecv
    /\ UNCHANGED <<slave_vars, ui_vars>>

\* ------------------------------------------------- slave server: reactor
\* BaseServer.accept, called by the reactor for the listening socket
SlaveAccept ==
    /\ slave_pc = "loop"
    /\ slave_keep_running
    /\ \E c \in SlaveConns :
        /\ slave_conn[c] = "absent"
        /\ \A d \in SlaveConns : d < c => slave_conn[d] # "absent"
        /\ slave_conn' = [slave_conn EXCEPT ![c] = "open"]
        /\ slave_send_queues' = slave_send_queues \cup {c}
        /\ slave_queue' = [slave_queue EXCEPT ![c] = <<>>]
        /\ slave_sel' = slave_sel \cup {c}
    /\ UNCHANGED ui_vars
    /\ UNCHANGED rv
    /\ UNCHANGED <<slave_keep_running, port_mapping, notify_queue, check_buffer,
                   slave_workers, slave_pc, slave_next_msg, slave_enq, slave_wire,
                   last_result, cc, quit_pc, quit_copy,
                   quit_begin, ss, slave_log_handlers>>

\* SlaveManagementServer.read, a frame with an action was received: a worker
\* thread is started for it
SlaveRead(c, action, args) ==
    /\ slave_pc = "loop"
    /\ c \in slave_sel
    /\ BagCardinality(slave_workers) < MaxWorkers
    /\ slave_workers' = slave_workers (+)
           SetToBag({[action |-> action, args |-> args, connection |-> c,
                      at |-> "start"]})
    /\ UNCHANGED ui_vars
    /\ UNCHANGED rv
    /\ UNCHANGED <<slave_conn, slave_send_queues, slave_queue, slave_sel,
                   slave_keep_running, port_mapping, notify_queue, check_buffer,
                   slave_pc, slave_next_msg, slave_enq, slave_wire,
                   last_result, cc, quit_pc, quit_copy,
                   quit_begin, ss, slave_log_handlers>>

\* self.send_queues.pop(connection); self.sel.unregister(connection);
\* connection.close()  -- pop raises KeyError for a missing key
DropConnection(c) ==
    /\ c \in slave_send_queues
    /\ slave_send_queues' = slave_send_queues \ {c}
    /\ slave_sel' = slave_sel \ {c}
    /\ slave_conn' = [slave_conn EXCEPT ![c] = "closed"]

\* SlaveManagementServer.read, recv returned no bytes (uncontrolled loss)
SlaveReadEOF(c) ==
    /\ slave_pc = "loop"
    /\ c \in slave_sel
    /\ notify_queue' =
          IF c \in DOMAIN port_mapping /\ c \in slave_send_queues
          THEN Append(notify_queue, SlaveDisconnectEvent(port_mapping[c], c))
          ELSE notify_queue
    /\ Len(notify_queue') <= MaxQueue
    /\ IF c \in slave_send_queues
       THEN DropConnection(c) /\ UNCHANGED slave_pc
       ELSE \* KeyError in the try block, KeyError again in its handler
            /\ slave_pc' = "crashed"
            /\ UNCHANGED <<slave_send_queues, slave_sel, slave_conn>>
    /\ UNCHANGED ui_vars
    /\ UNCHANGED rv
    /\ UNCHANGED <<slave_queue, slave_keep_running, port_mapping, check_buffer,
                   slave_workers, slave_next_msg, slave_enq, slave_wire,
                   last_result, cc, quit_pc, quit_copy,
                   quit_begin, ss, slave_log_handlers>>

\* SlaveManagementServer.read, recv raised socket.error
SlaveReadError(c) ==
    /\ slave_pc = "loop"
    /\ c \in slave_sel
    /\ IF c \in slave_send_queues
       THEN DropConnection(c) /\ UNCHANGED slave_pc
       ELSE /\ slave_pc' = "crashed"
            /\ UNCHANGED <<slave_send_queues, slave_sel, slave_conn>>
    /\ UNCHANGED ui_vars
    /\ UNCHANGED rv
    /\ UNCHANGED <<slave_queue, slave_keep_running, port_mapping, notify_queue,
                   check_buffer, slave_workers, slave_next_msg, slave_enq,
                   slave_wire, last_result, cc, quit_pc, quit_copy,
                   quit_begin, ss, slave_log_handlers>>

\* QueueGet taking the newest message instead of the oldest
QueueGet_last(q) == q[Len(q)]

\* send_queue.get(): the message BaseServer.write takes off a queue
QueueGet(q) == Head(q)
QueueRest(q) == Tail(q)

\* BaseServer.write, first half: look the queue up and dequeue one message
SlaveWrite(c) ==
    /\ slave_pc = "loop"
    /\ c \in slave_sel
    /\ c \in slave_send_queues
    /\ slave_queue[c] # <<>>
    /\ slave_keep_running
    /\ slave_next_msg' = <<c, QueueGet(slave_queue[c])>>
    /\ slave_queue' = [slave_queue EXCEPT ![c] = QueueRest(slave_queue[c])]
    /\ slave_pc' = "write"
    /\ UNCHANGED ui_vars
    /\ UNCHANGED rv
    /\ UNCHANGED <<slave_conn, slave_send_queues, slave_sel, slave_keep_running,
                   port_mapping, notify_queue, check_buffer, slave_workers,
                   slave_enq, slave_wire, last_result, cc, quit_pc,
                   quit_copy,
                   quit_begin, ss, slave_log_handlers>>

\* BaseServer.write, second half: connection.sendall(next_msg); a socket
\* error is logged and the message is gone
SlaveSendall ==
    /\ slave_pc = "write"
    /\ slave_wire' = [slave_wire EXCEPT ![slave_next_msg[1]] =
                          Append(@, slave_next_msg[2])]
    /\ slave_next_msg' = <<>>
    /\ slave_pc' = "loop"
    /\ UNCHANGED ui_vars
    /\ UNCHANGED rv
    /\ UNCHANGED <<slave_conn, slave_send_queues, slave_queue, slave_sel,
                   slave_keep_running, port_mapping, notify_queue, check_buffer,
                   slave_workers, slave_enq, last_result, cc, quit_pc,
                   quit_copy,
                   quit_begin, ss, slave_log_handlers>>

\* SlaveManagementServer._run_loop: the while condition fails, sel.close()
SlaveLoopExit ==
    /\ slave_pc = "loop"
    /\ ~slave_keep_running
    /\ slave_pc' = "exited"
    /\ UNCHANGED ui_vars
    /\ UNCHANGED rv
    /\ UNCHANGED <<slave_conn, slave_send_queues, slave_queue, slave_sel,
                   slave_keep_running, port_mapping, notify_queue, check_buffer,
                   slave_workers, slave_next_msg, slave_enq, slave_wire,
                   last_result, cc, quit_pc, quit_copy,
                   quit_begin, ss, slave_log_handlers>>

\* ------------------------------------------------- slave server: workers
Worker(action, args, c, at) ==
    [action |-> action, args |-> args, connection |-> c, at |-> at]

\* SlaveManagementServer._interpret_message, action == "unsubscribe"; a
\* KeyError from pop ends the worker thread
SlaveUnsubscribe(w) ==
    /\ BagIn(w, slave_workers)
    /\ w.action = "unsubscribe"
    /\ slave_workers' = slave_workers (-) SetToBag({w})
    /\ IF w.connection \in slave_send_queues
       THEN DropConnection(w.connection)
       ELSE UNCHANGED <<slave_send_queues, slave_sel, slave_conn>>
    /\ UNCHANGED ui_vars
    /\ UNCHANGED rv
    /\ UNCHANGED <<slave_queue, slave_keep_running, port_mapping, notify_queue,
                   check_buffer, slave_pc, slave_next_msg, slave_enq, slave_wire,
                   last_result, cc, quit_pc, quit_copy,
                   quit_begin, ss, slave_log_handlers>>

\* SlaveManagementServer._interpret_message, action == "auth"
SlaveAuth(w) ==
    /\ BagIn(w, slave_workers)
    /\ w.action = "auth"
    /\ slave_workers' = slave_workers (-) SetToBag({w})
    /\ port_mapping' = Put(port_mapping, w.connection, w.args[1])
    /\ UNCHANGED ui_vars
    /\ UNCHANGED rv
    /\ UNCHANGED <<slave_conn, slave_send_queues, slave_queue, slave_sel,
                   slave_keep_running, notify_queue, check_buffer, slave_pc,
                   slave_next_msg, slave_enq, slave_wire, last_result,
                   cc, quit_pc, quit_copy,
                   quit_begin, ss, slave_log_handlers>>

\* SlaveManagementServer._forward_event, first statement:
\* self.notify_queue.put(event)
ForwardPut(w) ==
    /\ BagIn(w, slave_workers)
    /\ w.action = "queue_event"
    /\ w.at = "start"
    /\ Len(notify_queue) < MaxQueue
    /\ notify_queue' = Append(notify_queue, w.args[1])
    /\ slave_workers' =
          IF w.args[1].type = "CheckEvent"
          THEN (slave_workers (-) SetToBag({w}))
                   (+) SetToBag({Worker(w.action, w.args, w.connection, "buffer")})
          ELSE slave_workers (-) SetToBag({w})
    /\ UNCHANGED ui_vars
    /\ UNCHANGED rv
    /\ UNCHANGED <<slave_conn, slave_send_queues, slave_queue, slave_sel,
                   slave_keep_running, port_mapping, check_buffer, slave_pc,
                   slave_next_msg, slave_enq, slave_wire, last_result,
                   cc, quit_pc, quit_copy,
                   quit_begin, ss, slave_log_handlers>>

\* a check_component call that has cleared check_buffer[comp_id] and has not
\* yet read it for its return value
Waiting(call, comp_id) ==
    call.pc \in {"wait", "ret"} /\ call.comp_id = comp_id

\* SlaveManagementServer._forward_event, second statement, for a CheckEvent:
\* self.check_buffer[event.comp_id] = event.check_state
ForwardBuffer(w) ==
    /\ BagIn(w, slave_workers)
    /\ w.action = "queue_event"
    /\ w.at = "buffer"
    /\ slave_workers' = slave_workers (-) SetToBag({w})
    /\ check_buffer' = Put(check_buffer, w.args[1].comp_id, w.args[1].check_state)
    /\ cc' = [k \in Callers |->
                IF Waiting(cc[k], w.args[1].comp_id)
                THEN [cc[k] EXCEPT !.answer = w.args[1].check_state]
                ELSE cc[k]]
    /\ UNCHANGED ui_vars
    /\ UNCHANGED rv
    /\ UNCHANGED <<slave_conn, slave_send_queues, slave_queue, slave_sel,
                   slave_keep_running, port_mapping, notify_queue, slave_pc,
                   slave_next_msg, slave_enq, slave_wire, last_result,
                   quit_pc, quit_copy,
                   quit_begin, ss, slave_log_handlers>>

\* ------------------------------------------- slave server: master side
\* ConnectionQueue with the comparison against hostname lost: the first
\* connection that has any identity
ConnectionQueue_any(hostname) ==
    LET matching == {c \in slave_send_queues : Get(port_mapping, c) # None}
    IN  IF matching = {} THEN {} ELSE {Min(matching)}

\* ConnectionQueue with the break lost: every connection that matches
ConnectionQueue_all(hostname) ==
    {c \in slave_send_queues : Get(port_mapping, c) = hostname}

\* for connection in self.send_queues:
\*     if self.port_mapping.get(connection) == hostname: ...; break
\* the connections whose queue the scan ends with: none, or the first match
ConnectionQueue(hostname) ==
    LET matching == {c \in slave_send_queues : Get(port_mapping, c) = hostname}
    IN  IF matching = {} THEN {} ELSE {Min(matching)}

\* the body shared by start_component, stop_component, start_clone_session
SendOrRaise(action, comp_id, hostname) ==
    LET message == serialize_request(action, <<comp_id>>)
        connection_queue == ConnectionQueue(hostname)
    IN  /\ Room(slave_enq, connection_queue)
        /\ slave_queue' = QueuePut(slave_queue, connection_queue, message)
        /\ slave_enq' = QueuePut(slave_enq, connection_queue, message)
        /\ last_result' = IF connection_queue # {}
                           THEN "returned"
                           ELSE "SlaveNotReachableException"
        /\ UNCHANGED ui_vars
        /\ UNCHANGED rv
        /\ UNCHANGED <<slave_conn, slave_send_queues, slave_sel,
                       slave_keep_running, port_mapping, notify_queue,
                       check_buffer, slave_workers, slave_pc, slave_next_msg,
                       slave_wire, cc, quit_pc, quit_copy,
                       quit_begin, ss, slave_log_handlers>>

start_component(comp_id, hostname) ==
    SendOrRaise("start", comp_id, hostname)

stop_component(comp_id, hostname) ==
    SendOrRaise("stop", comp_id, hostname)

start_clone_session(comp_id, hostname) ==
    SendOrRaise("start_clone_session", comp_id, hostname)

\* KillTargets stopping after the first queue
KillTargets_first ==
    IF slave_send_queues = {} THEN {} ELSE {Min(slave_send_queues)}

\* kill_slaves: for slave_queue in self.send_queues.values()
KillTargets == slave_send_queues

\* SlaveManagementServer.kill_slaves
kill_slaves(full) ==
    LET action == IF full THEN "quit" ELSE "suspend"
        message == serialize_request(action, <<>>)
    IN  /\ Room(slave_enq, KillTargets)
        /\ slave_queue' = QueuePut(slave_queue, KillTargets, message)
        /\ slave_enq' = QueuePut(slave_enq, KillTargets, message)
        /\ last_result' = "returned"
        /\ UNCHANGED ui_vars
        /\ UNCHANGED rv
        /\ UNCHANGED <<slave_conn, slave_send_queues, slave_sel,
                       slave_keep_running, port_mapping, notify_queue,
                       check_buffer, slave_workers, slave_pc, slave_next_msg,
                       slave_wire, cc, quit_pc, quit_copy,
                       quit_begin, ss, slave_log_handlers>>

\* SlaveManagementServer.check_component up to the polling loop: scan the
\* registry, clear check_buffer[comp_id], enqueue the check frame, set end_t.
\* Time is counted in the loop's own 0.5 s sleeps: component_wait + 1 seconds
\* are 2 * (component_wait + 1) of them.  Each caller thread makes one call.
CheckBegin(k, comp_id, hostname, component_wait) ==
    LET message == serialize_request("check", <<comp_id>>)
        connection_queue == ConnectionQueue(hostname)
    IN  /\ cc[k].pc = "idle"
        /\ Room(slave_enq, connection_queue)
        /\ check_buffer' = Put(check_buffer, comp_id, None)
        /\ slave_queue' = QueuePut(slave_queue, connection_queue, message)
        /\ slave_enq' = QueuePut(slave_enq, connection_queue, message)
        /\ cc' = [cc EXCEPT ![k] =
                    [pc |-> IF connection_queue # {} THEN "wait" ELSE "ret",
                     comp_id |-> comp_id,
                     end_t |-> IF connection_queue # {}
                               THEN 2 * (component_wait + 1) ELSE 0,
                     ret |-> None,
                     sent |-> Cardinality(connection_queue),
                     answer |-> None]]
        /\ UNCHANGED ui_vars
        /\ UNCHANGED rv
        /\ UNCHANGED <<slave_conn, slave_send_queues, slave_sel,
                       slave_keep_running, port_mapping, notify_queue,
                       slave_workers, slave_pc, slave_next_msg, slave_wire,
                       last_result, quit_pc, quit_copy,
                       quit_begin, ss, slave_log_handlers>>

\* one evaluation of "while end_t > time.time()" and of the loop body
CheckPoll(k) ==
    /\ cc[k].pc = "wait"
    /\ cc' = [cc EXCEPT ![k] =
                IF cc[k].end_t > 0 /\ check_buffer[cc[k].comp_id] = None
                THEN [@ EXCEPT !.end_t = @ - 1]      \* time.sleep(0.5)
                ELSE [@ EXCEPT !.pc = "ret"]]        \* break, or deadline
    /\ UNCHANGED ui_vars
    /\ UNCHANGED rv
    /\ UNCHANGED <<slave_conn, slave_send_queues, slave_queue, slave_sel,
                   slave_keep_running, port_mapping, notify_queue, check_buffer,
                   slave_workers, slave_pc, slave_next_msg, slave_enq,
                   slave_wire, last_result, quit_pc, quit_copy,
                   quit_begin, ss, slave_log_handlers>>

\* CheckResult without the None test: the buffer's value as it is
CheckResult_raw(ret) == ret

\* if ret is not None: return ret / else: return config.CheckState.UNREACHABLE
CheckResult(ret) == IF ret # None THEN ret ELSE UNREACHABLE

\* ret = self.check_buffer[comp_id] and the return that follows
CheckReturn(k) ==
    /\ cc[k].pc = "ret"
    /\ cc' = [cc EXCEPT ![k] =
                [@ EXCEPT !.pc = "done",
                          !.ret = CheckResult(check_buffer[cc[k].comp_id])]]
    /\ UNCHANGED ui_vars
    /\ UNCHANGED rv
    /\ UNCHANGED <<slave_conn, slave_send_queues, slave_queue, slave_sel,
                   slave_keep_running, port_mapping, notify_queue, check_buffer,
                   slave_workers, slave_pc, slave_next_msg, slave_enq,
                   slave_wire, last_result, quit_pc, quit_copy,
                   quit_begin, ss, slave_log_handlers>>

\* SlaveConnection with the comparison against hostname lost
SlaveConnection_any(hostname) ==
    LET matching == {c \in slave_send_queues : Get(port_mapping, c) # None}
    IN  IF matching = {} THEN {} ELSE {Min(matching)}

\* start_slave, both scans:
\* for conn, sq in self.send_queues.items():
\*     if hostname == self.port_mapping.get(conn): ...; return True
\* the connection the scan returns at: none, or the first match
SlaveConnection(hostname) ==
    LET matching == {c \in slave_send_queues : Get(port_mapping, c) = hostname}
    IN  IF matching = {} THEN {} ELSE {Min(matching)}

\* for message in custom_messages: sq.put(message), on the queue of each
\* connection in S
QueuePutAll(q, S, custom_messages) ==
    [c \in DOMAIN q |-> IF c \in S THEN q[c] \o custom_messages ELSE q[c]]

\* start_slave up to the polling loop. If the registry holds a connection
\* of hostname (select on a registered socket does not raise), a
\* SlaveReconnectEvent is forwarded, the custom messages are put on its
\* queue and the call returns True. Otherwise the log handler of the host is
\* registered, the command that starts the slave is sent to the tmux
\* window and end_t is set. The handler is keyed by host_ip, the resolved
\* address of hostname, written here as hostname. The model lets a call
\* begin only while the queues have room for what it may put on them.
StartSlaveBegin(hostname, custom_messages) ==
    /\ ss.pc = "idle"
    /\ Len(notify_queue) < MaxQueue
    /\ \A c \in SlaveConns :
          Len(slave_enq[c]) + Len(custom_messages) <= MaxQueue
    /\ LET found == SlaveConnection(hostname)
       IN  IF found # {}
           THEN /\ notify_queue' =
                      Append(notify_queue,
                             SlaveReconnectEvent(hostname, Min(found)))
                /\ slave_queue' = QueuePutAll(slave_queue, found, custom_messages)
                /\ slave_enq' = QueuePutAll(slave_enq, found, custom_messages)
                /\ ss' = [pc |-> "done", hostname |-> hostname,
                          custom_messages |-> custom_messages, polls |-> 0,
                          ret |-> "True"]
                /\ UNCHANGED slave_log_handlers
           ELSE /\ slave_log_handlers' = slave_log_handlers \cup {hostname}
                /\ ss' = [pc |-> "poll", hostname |-> hostname,
                          custom_messages |-> custom_messages,
                          polls |-> StartSlavePolls, ret |-> None]
                /\ UNCHANGED <<notify_queue, slave_queue, slave_enq>>
    /\ UNCHANGED ui_vars
    /\ UNCHANGED rv
    /\ UNCHANGED <<slave_conn, slave_send_queues, slave_sel, slave_keep_running,
                   port_mapping, check_buffer, slave_workers, slave_pc,
                   slave_next_msg, slave_wire, last_result, cc, quit_pc,
                   quit_copy, quit_begin>>

\* the polls left with time.sleep(0.5) never reaching end_t
PollsLeft_same(polls) == polls

\* time.sleep(0.5): one poll fewer is left before time.time() reaches end_t
PollsLeft(polls) == polls - 1

\* start_slave, one iteration of "while time.time() < end_t": scan the
\* registry; at the first connection of hostname put the custom messages
\* on its queue, forward a SlaveReconnectEvent and return True; with no
\* such connection sleep
StartSlavePoll ==
    /\ ss.pc = "poll"
    /\ ss.polls > 0
    /\ LET found == SlaveConnection(ss.hostname)
       IN  IF found # {}
           THEN /\ slave_queue' =
                      QueuePutAll(slave_queue, found, ss.custom_messages)
                /\ slave_enq' = QueuePutAll(slave_enq, found, ss.custom_messages)
                /\ notify_queue' =
                      Append(notify_queue,
                             SlaveReconnectEvent(ss.hostname, Min(found)))
                /\ ss' = [ss EXCEPT !.pc = "done", !.ret = "True"]
           ELSE /\ ss' = [ss EXCEPT !.polls = PollsLeft(ss.polls)]
                /\ UNCHANGED <<notify_queue, slave_queue, slave_enq>>
    /\ UNCHANGED ui_vars
    /\ UNCHANGED rv
    /\ UNCHANGED <<slave_conn, slave_send_queues, slave_sel, slave_keep_running,
                   port_mapping, check_buffer, slave_workers, slave_pc,
                   slave_next_msg, slave_wire, last_result, cc, quit_pc,
                   quit_copy, quit_begin, slave_log_handlers>>

\* start_slave: time.time() has reached end_t, the loop ends; return False
StartSlaveTimeout ==
    /\ ss.pc = "poll"
    /\ ss.polls = 0
    /\ ss' = [ss EXCEPT !.pc = "done", !.ret = "False"]
    /\ UNCHANGED ui_vars
    /\ UNCHANGED rv
    /\ UNCHANGED <<slave_conn, slave_send_queues, slave_queue, slave_sel,
                   slave_keep_running, port_mapping, notify_queue, check_buffer,
                   slave_workers, slave_pc, slave_next_msg, slave_enq,
                   slave_wire, last_result, cc, quit_pc, quit_copy, quit_begin,
                   slave_log_handlers>>

\* the caller has taken the value start_slave returned
StartSlaveReturn ==
    /\ ss.pc = "done"
    /\ ss' = IdleStart
    /\ UNCHANGED ui_vars
    /\ UNCHANGED rv
    /\ UNCHANGED <<slave_conn, slave_send_queues, slave_queue, slave_sel,
                   slave_keep_running, port_mapping, notify_queue, check_buffer,
                   slave_workers, slave_pc, slave_next_msg, slave_enq,
                   slave_wire, last_result, cc, quit_pc, quit_copy, quit_begin,
                   slave_log_handlers>>

\* the predicate of BaseServer._quit: "while sub.empty()" is left when
\* the queue holds something
QueueEmpty_base(q) == q # <<>>

\* _quit: "while not sq.empty()" is left when sq.empty()
QueueEmpty(q) == q = <<>>

\* SlaveManagementServer._quit: send_queues = self.send_queues.copy()
SlaveQuitBegin ==
    /\ quit_pc = "idle"
    /\ quit_pc' = "drain"
    /\ quit_copy' = InOrder(slave_send_queues)
    /\ quit_begin' = [c \in SlaveConns |->
                        IF c \in slave_send_queues
                        THEN [enq |-> slave_enq[c], pending |-> slave_queue[c]]
                        ELSE [enq |-> <<>>, pending |-> <<>>]]
    /\ UNCHANGED ui_vars
    /\ UNCHANGED rv
    /\ UNCHANGED <<slave_conn, slave_send_queues, slave_queue, slave_sel,
                   slave_keep_running, port_mapping, notify_queue, check_buffer,
                   slave_workers, slave_pc, slave_next_msg, slave_enq,
                   slave_wire, last_result, cc, ss, slave_log_handlers>>

\* _quit: "while not sq.empty(): time.sleep(0.5)" ends for the next queue
SlaveQuitWait ==
    /\ quit_pc = "drain"
    /\ quit_copy # <<>>
    /\ QueueEmpty(slave_queue[Head(quit_copy)])
    /\ quit_copy' = Tail(quit_copy)
    /\ UNCHANGED ui_vars
    /\ UNCHANGED rv
    /\ UNCHANGED <<slave_conn, slave_send_queues, slave_queue, slave_sel,
                   slave_keep_running, port_mapping, notify_queue, check_buffer,
                   slave_workers, slave_pc, slave_next_msg, slave_enq,
                   slave_wire, last_result, cc, quit_pc, quit_begin, ss,
                   slave_log_handlers>>

\* _quit: self.send_queues = {}; self.keep_running = False
SlaveQuitEnd ==
    /\ quit_pc = "drain"
    /\ quit_copy = <<>>
    /\ slave_send_queues' = {}
    /\ slave_keep_running' = FALSE
    /\ quit_pc' = "done"
    /\ UNCHANGED ui_vars
    /\ UNCHANGED rv
    /\ UNCHANGED <<slave_conn, slave_queue, slave_sel, port_mapping,
                   notify_queue, check_buffer, slave_workers, slave_pc,
                   slave_next_msg, slave_enq, slave_wire, last_result,
                   cc, quit_copy,
                   quit_begin, ss, slave_log_handlers>>


\* ---------------------------------------------------- UI server: reactor
\* BaseServer.accept, called by the UI reactor for the listening socket
UIAccept ==
    /\ ui_pc = "loop"
    /\ ui_keep_running
    /\ \E c \in UIConns :
        /\ ui_conn[c] = "absent"
        /\ \A d \in UIConns : d < c => ui_conn[d] # "absent"
        /\ ui_conn' = [ui_conn EXCEPT ![c] = "open"]
        /\ ui_send_queues' = ui_send_queues \cup {c}
        /\ ui_queue' = [ui_queue EXCEPT ![c] = <<>>]
        /\ ui_sel' = ui_sel \cup {c}
    /\ UNCHANGED slave_vars
    /\ UNCHANGED rv
    /\ UNCHANGED ui_iter
    /\ UNCHANGED <<ui_keep_running, event_queue, host_states, ui_workers, ui_pc,
                   ui_next_msg, ui_event, ui_enq, ui_wire>>

\* Server.receiver_mapping
receiver_mapping ==
    [a \in {"get_conf", "get_host_states", "get_host_stats"} |-> "single"]

\* Server.read, a frame with an action other than "quit" was received
UIRead(c, action, args) ==
    /\ ui_pc = "loop"
    /\ c \in ui_sel
    /\ action # "quit"
    /\ BagCardinality(ui_workers) < MaxWorkers
    /\ ui_workers' = ui_workers (+)
           SetToBag({[action |-> action, args |-> args, connection |-> c]})
    /\ UNCHANGED slave_vars
    /\ UNCHANGED rv
    /\ UNCHANGED ui_iter
    /\ UNCHANGED <<ui_conn, ui_send_queues, ui_queue, ui_sel, ui_keep_running,
                   event_queue, host_states, ui_pc, ui_next_msg, ui_event,
                   ui_enq, ui_wire>>

\* Server.read, action == "quit": worker.start(); worker.join() comes next
UIReadQuit(c) ==
    /\ ui_pc = "loop"
    /\ c \in ui_sel
    /\ BagCardinality(ui_workers) < MaxWorkers
    /\ ui_workers' = ui_workers (+)
           SetToBag({[action |-> "quit", args |-> <<>>, connection |-> c]})
    /\ ui_pc' = "join"
    /\ UNCHANGED slave_vars
    /\ UNCHANGED rv
    /\ UNCHANGED ui_iter
    /\ UNCHANGED <<ui_conn, ui_send_queues, ui_queue, ui_sel, ui_keep_running,
                   event_queue, host_states, ui_next_msg, ui_event, ui_enq,
                   ui_wire>>

\* Server._quit: self.send_queues = {}; self.keep_running = False
ServerQuit ==
    /\ ui_send_queues' = {}
    /\ ui_keep_running' = FALSE

\* Server.read, action == "quit": worker.join() returned; self._quit()
UIJoined ==
    /\ ui_pc = "join"
    /\ \A w \in BagToSet(ui_workers) : w.action # "quit"
    /\ ServerQuit
    /\ ui_pc' = "loop"
    /\ UNCHANGED slave_vars
    /\ UNCHANGED rv
    /\ UNCHANGED ui_iter
    /\ UNCHANGED <<ui_conn, ui_queue, ui_sel, event_queue, host_states,
                   ui_workers, ui_next_msg, ui_event, ui_enq, ui_wire>>

\* Server._handle_sigint: self._quit(), run by the signal handler
UISigint ==
    /\ ui_keep_running
    /\ ServerQuit
    /\ UNCHANGED slave_vars
    /\ UNCHANGED rv
    /\ UNCHANGED ui_iter
    /\ UNCHANGED <<ui_conn, ui_queue, ui_sel, event_queue, host_states,
                   ui_workers, ui_pc, ui_next_msg, ui_event, ui_enq, ui_wire>>

\* self.send_queues.pop(connection); self.sel.unregister(connection);
\* connection.close()
UIDropConnection(c) ==
    /\ c \in ui_send_queues
    /\ ui_send_queues' = ui_send_queues \ {c}
    /\ ui_sel' = ui_sel \ {c}
    /\ ui_conn' = [ui_conn EXCEPT ![c] = "closed"]

\* Server.read, recv returned no bytes, or raised socket.error: both
\* branches pop, unregister and close; a KeyError from pop is not an OSError
\* and ends the reactor thread
UIReadEOF(c) ==
    /\ ui_pc = "loop"
    /\ c \in ui_sel
    /\ IF c \in ui_send_queues
       THEN UIDropConnection(c) /\ UNCHANGED ui_pc
       ELSE /\ ui_pc' = "crashed"
            /\ UNCHANGED <<ui_send_queues, ui_sel, ui_conn>>
    /\ UNCHANGED slave_vars
    /\ UNCHANGED rv
    /\ UNCHANGED ui_iter
    /\ UNCHANGED <<ui_queue, ui_keep_running, event_queue, host_states,
                   ui_workers, ui_next_msg, ui_event, ui_enq, ui_wire>>

\* Server.read, connection.recv(4) returned 1 to 3 bytes: raw_msglen is
\* not empty and struct.unpack(">I", raw_msglen) raises struct.error, which
\* neither the except socket.error of read nor the except OSError of _loop
\* catches; the reactor thread ends with the connection still registered
UIReadShortHeader(c) ==
    /\ ui_pc = "loop"
    /\ c \in ui_sel
    /\ ui_pc' = "crashed"
    /\ UNCHANGED slave_vars
    /\ UNCHANGED rv
    /\ UNCHANGED <<ui_conn, ui_send_queues, ui_queue, ui_sel, ui_keep_running,
                   event_queue, host_states, ui_workers, ui_next_msg, ui_event,
                   ui_enq, ui_wire, ui_iter>>

\* Server.read, the header was read and the body has not fully arrived:
\* recv in recvall, on the non-blocking socket, raises BlockingIOError, a
\* socket.error: the except branch pops, unregisters and closes
UIReadShortBody(c) ==
    /\ ui_pc = "loop"
    /\ c \in ui_sel
    /\ IF c \in ui_send_queues
       THEN UIDropConnection(c) /\ UNCHANGED ui_pc
       ELSE /\ ui_pc' = "crashed"
            /\ UNCHANGED <<ui_send_queues, ui_sel, ui_conn>>
    /\ UNCHANGED slave_vars
    /\ UNCHANGED rv
    /\ UNCHANGED <<ui_queue, ui_keep_running, event_queue, host_states,
                   ui_workers, ui_next_msg, ui_event, ui_enq, ui_wire, ui_iter>>

\* BaseServer.write, first half, on the UI server
UIWrite(c) ==
    /\ ui_pc = "loop"
    /\ c \in ui_sel
    /\ c \in ui_send_queues
    /\ ui_queue[c] # <<>>
    /\ ui_keep_running
    /\ ui_next_msg' = <<c, QueueGet(ui_queue[c])>>
    /\ ui_queue' = [ui_queue EXCEPT ![c] = QueueRest(ui_queue[c])]
    /\ ui_pc' = "write"
    /\ UNCHANGED slave_vars
    /\ UNCHANGED rv
    /\ UNCHANGED ui_iter
    /\ UNCHANGED <<ui_conn, ui_send_queues, ui_sel, ui_keep_running, event_queue,
                   host_states, ui_workers, ui_event, ui_enq, ui_wire>>

\* BaseServer.write, second half, on the UI server
UISendall ==
    /\ ui_pc = "write"
    /\ ui_wire' = [ui_wire EXCEPT ![ui_next_msg[1]] = Append(@, ui_next_msg[2])]
    /\ ui_next_msg' = <<>>
    /\ ui_pc' = "loop"
    /\ UNCHANGED slave_vars
    /\ UNCHANGED rv
    /\ UNCHANGED ui_iter
    /\ UNCHANGED <<ui_conn, ui_send_queues, ui_queue, ui_sel, ui_keep_running,
                   event_queue, host_states, ui_workers, ui_event, ui_enq>>

\* Server._process_events, first loop: everything on the slave server's
\* notify queue is moved to the event queue
UIProcessEvents ==
    /\ ui_pc = "loop"
    /\ event_queue' = event_queue \o notify_queue
    /\ notify_queue' = <<>>
    /\ ui_pc' = "events"
    /\ UNCHANGED <<slave_conn, slave_send_queues, slave_queue, slave_sel,
                   slave_keep_running, port_mapping, check_buffer,
                   slave_workers, slave_pc, slave_next_msg, slave_enq,
                   slave_wire, last_result, cc, quit_pc, quit_copy,
                   quit_begin, ss, slave_log_handlers>>
    /\ UNCHANGED <<ui_conn, ui_send_queues, ui_queue, ui_sel, ui_keep_running,
                   host_states, ui_workers, ui_next_msg, ui_event, ui_enq,
                   ui_wire, ui_iter, rv>>

\* FanOutTargets stopping after the first queue
FanOutTargets_first ==
    IF ui_send_queues = {} THEN {} ELSE {Min(ui_send_queues)}

\* the connections whose queue the fan-out loop puts the message on:
\* for message_queue in self.send_queues.values()
FanOutTargets == ui_send_queues

\* Server._process_events, second loop, one event: get it and put its
\* queue_event frame on every queue of the registry
UIFanOut ==
    /\ ui_pc = "events"
    /\ event_queue # <<>>
    /\ LET event == Head(event_queue)
           message == serialize_request("queue_event", <<event>>)
       IN  /\ Room(ui_enq, FanOutTargets)
           /\ event_queue' = Tail(event_queue)
           /\ ui_queue' = QueuePut(ui_queue, FanOutTargets, message)
           /\ ui_enq' = QueuePut(ui_enq, FanOutTargets, message)
           /\ IF event.type = "DisconnectEvent"
              THEN ui_pc' = "host_state" /\ ui_event' = <<event>>
              ELSE UNCHANGED <<ui_pc, ui_event>>
    /\ UNCHANGED slave_vars
    /\ UNCHANGED rv
    /\ UNCHANGED ui_iter
    /\ UNCHANGED <<ui_conn, ui_send_queues, ui_sel, ui_keep_running, host_states,
                   ui_workers, ui_next_msg, ui_wire>>

\* Server._process_events, second loop, the DisconnectEvent branch
UISetHostState ==
    /\ ui_pc = "host_state"
    /\ host_states' = [host_states EXCEPT ![ui_event[1].host_name] = DISCONNECTED]
    /\ ui_event' = <<>>
    /\ ui_pc' = "events"
    /\ UNCHANGED slave_vars
    /\ UNCHANGED rv
    /\ UNCHANGED ui_iter
    /\ UNCHANGED <<ui_conn, ui_send_queues, ui_queue, ui_sel, ui_keep_running,
                   event_queue, ui_workers, ui_next_msg, ui_enq, ui_wire>>

\* Server._process_events, second loop, taken statement by statement: get
\* the event, serialize it, and make the iterator of
\* "for message_queue in self.send_queues.values()". The iterator walks
\* the dict in insertion order and remembers the size the dict has now.
UIFanOutBegin ==
    /\ ui_pc = "events"
    /\ event_queue # <<>>
    /\ ui_iter = <<>>
    /\ event_queue' = Tail(event_queue)
    /\ ui_event' = <<Head(event_queue)>>
    /\ ui_iter' = <<[message |-> serialize_request("queue_event",
                                                    <<Head(event_queue)>>),
                     todo |-> InOrder(ui_send_queues),
                     used |-> Cardinality(ui_send_queues)]>>
    /\ ui_pc' = "fanout"
    /\ UNCHANGED slave_vars
    /\ UNCHANGED rv
    /\ UNCHANGED <<ui_conn, ui_send_queues, ui_queue, ui_sel, ui_keep_running,
                   host_states, ui_workers, ui_next_msg, ui_enq, ui_wire>>

\* one next() of the iterator and, when it yields a queue,
\* message_queue.put(message). If the dict has changed size since the
\* iterator was made, next() raises RuntimeError, which is not an OSError:
\* it leaves _loop and ends the reactor thread. When the iterator is
\* exhausted the loop ends and the isinstance test follows.
UIFanOutStep ==
    /\ ui_pc = "fanout"
    /\ LET it == ui_iter[1]
       IN  IF Cardinality(ui_send_queues) # it.used
           THEN /\ ui_pc' = "crashed"
                /\ ui_iter' = <<>>
                /\ ui_event' = <<>>
                /\ UNCHANGED <<ui_queue, ui_enq>>
           ELSE IF it.todo = <<>>
           THEN /\ ui_iter' = <<>>
                /\ IF ui_event[1].type = "DisconnectEvent"
                   THEN ui_pc' = "host_state" /\ UNCHANGED ui_event
                   ELSE ui_pc' = "events" /\ ui_event' = <<>>
                /\ UNCHANGED <<ui_queue, ui_enq>>
           ELSE /\ Room(ui_enq, {Head(it.todo)})
                /\ ui_queue' = QueuePut(ui_queue, {Head(it.todo)}, it.message)
                /\ ui_enq' = QueuePut(ui_enq, {Head(it.todo)}, it.message)
                /\ ui_iter' = <<[it EXCEPT !.todo = Tail(it.todo)]>>
                /\ UNCHANGED <<ui_pc, ui_event>>
    /\ UNCHANGED slave_vars
    /\ UNCHANGED rv
    /\ UNCHANGED <<ui_conn, ui_send_queues, ui_sel, ui_keep_running,
                   event_queue, host_states, ui_workers, ui_next_msg, ui_wire>>

\* Server._process_events returns: the event queue was found empty
UIProcessDone ==
    /\ ui_pc = "events"
    /\ event_queue = <<>>
    /\ ui_pc' = "loop"
    /\ UNCHANGED slave_vars
    /\ UNCHANGED rv
    /\ UNCHANGED ui_iter
    /\ UNCHANGED <<ui_conn, ui_send_queues, ui_queue, ui_sel, ui_keep_running,
                   event_queue, host_states, ui_workers, ui_next_msg, ui_event,
                   ui_enq, ui_wire>>

\* Server._loop: the while condition fails, sel.close()
UILoopExit ==
    /\ ui_pc = "loop"
    /\ ~ui_keep_running
    /\ ui_pc' = "exited"
    /\ UNCHANGED slave_vars
    /\ UNCHANGED rv
    /\ UNCHANGED ui_iter
    /\ UNCHANGED <<ui_conn, ui_send_queues, ui_queue, ui_sel, ui_keep_running,
                   event_queue, host_states, ui_workers, ui_next_msg, ui_event,
                   ui_enq, ui_wire>>

\* the ControlCenter puts an event on the queue it was given as subscriber
CCPublish(event) ==
    /\ Len(event_queue) < MaxQueue
    /\ event_queue' = Append(event_queue, event)
    /\ UNCHANGED slave_vars
    /\ UNCHANGED rv
    /\ UNCHANGED ui_iter
    /\ UNCHANGED <<ui_conn, ui_send_queues, ui_queue, ui_sel, ui_keep_running,
                   host_states, ui_workers, ui_pc, ui_next_msg, ui_event, ui_enq,
                   ui_wire>>

\* ---------------------------------------------------- UI server: workers
\* Server._interpret_message, action == "unsubscribe"
UIUnsubscribe(w) ==
    /\ BagIn(w, ui_workers)
    /\ w.action = "unsubscribe"
    /\ ui_workers' = ui_workers (-) SetToBag({w})
    /\ IF w.connection \in ui_send_queues
       THEN UIDropConnection(w.connection)
       ELSE UNCHANGED <<ui_send_queues, ui_sel, ui_conn>>
    /\ UNCHANGED slave_vars
    /\ UNCHANGED rv
    /\ UNCHANGED ui_iter
    /\ UNCHANGED <<ui_queue, ui_keep_running, event_queue, host_states, ui_pc,
                   ui_next_msg, ui_event, ui_enq, ui_wire>>

\* _send_config, _send_host_states, _send_host_stats: what func() returns
HandlerReturn(action) ==
    IF action = "get_host_states" THEN <<host_states>>
    ELSE IF action = "get_conf" THEN <<"config">>
    ELSE <<"host_stats">>

\* action = f"{action}_response"
ResponseAction(action) ==
    IF action = "get_host_states" THEN "get_host_states_response"
    ELSE IF action = "get_conf" THEN "get_conf_response"
    ELSE "get_host_stats_response"

\* ResponseTargets of a response of type "all"
ResponseTargets_all(connection) == ui_send_queues

\* the connections a response of type "single" is put on:
\* self.send_queues[connection].put(message)
ResponseTargets(connection) == {connection}

\* Server._interpret_message for an action of receiver_mapping: func(*args)
\* raises TypeError when args are given, and self.send_queues[connection]
\* raises KeyError when the connection is no longer registered
UIRespond(w) ==
    /\ BagIn(w, ui_workers)
    /\ w.action \in DOMAIN receiver_mapping
    /\ ui_workers' = ui_workers (-) SetToBag({w})
    /\ LET message == serialize_request(ResponseAction(w.action),
                                        HandlerReturn(w.action))
           targets == ResponseTargets(w.connection)
       IN  IF w.args # <<>>
           THEN UNCHANGED <<ui_queue, ui_enq>>
           ELSE IF w.connection \notin ui_send_queues
           THEN UNCHANGED <<ui_queue, ui_enq>>
           ELSE /\ Room(ui_enq, targets)
                /\ ui_queue' = QueuePut(ui_queue, targets, message)
                /\ ui_enq' = QueuePut(ui_enq, targets, message)
    /\ UNCHANGED slave_vars
    /\ UNCHANGED rv
    /\ UNCHANGED ui_iter
    /\ UNCHANGED <<ui_conn, ui_send_queues, ui_sel, ui_keep_running, event_queue,
                   host_states, ui_pc, ui_next_msg, ui_event, ui_wire>>

\* Server._interpret_message, action == "quit": cc.cleanup runs and returns
UICleanup(w) ==
    /\ BagIn(w, ui_workers)
    /\ w.action = "quit"
    /\ ui_workers' = ui_workers (-) SetToBag({w})
    /\ UNCHANGED slave_vars
    /\ UNCHANGED rv
    /\ UNCHANGED ui_iter
    /\ UNCHANGED <<ui_conn, ui_send_queues, ui_queue, ui_sel, ui_keep_running,
                   event_queue, host_states, ui_pc, ui_next_msg, ui_event,
                   ui_enq, ui_wire>>

\* ------------------------------------------------------- specification
CheckEvents == {CheckEvent(c, st) : c \in Comps, st \in ReportedStates}
DisconnectEvents == {DisconnectEvent(h) : h \in Hosts}

\* the slave server's reactor and workers
SlaveServerNext ==
    \/ SlaveAccept
    \/ \E c \in SlaveConns, h \in Hosts : SlaveRead(c, "auth", <<h>>)
    \/ \E c \in SlaveConns, e \in SlaveSentEvents : SlaveRead(c, "queue_event", <<e>>)
    \/ \E c \in SlaveConns : SlaveRead(c, "unsubscribe", <<>>)
    \/ \E c \in SlaveConns : SlaveReadEOF(c)
    \/ \E c \in SlaveConns : SlaveReadError(c)
    \/ \E c \in SlaveConns : SlaveWrite(c)
    \/ SlaveSendall
    \/ SlaveLoopExit
    \/ \E w \in BagToSet(slave_workers) : SlaveUnsubscribe(w)
    \/ \E w \in BagToSet(slave_workers) : SlaveAuth(w)
    \/ \E w \in BagToSet(slave_workers) : ForwardPut(w)
    \/ \E w \in BagToSet(slave_workers) : ForwardBuffer(w)

\* the master-side callers of the slave server
MasterNext ==
    \/ \E c \in Comps, h \in Hosts : start_component(c, h)
    \/ \E c \in Comps, h \in Hosts : stop_component(c, h)
    \/ \E c \in Comps, h \in Hosts : start_clone_session(c, h)
    \/ \E full \in BOOLEAN : kill_slaves(full)
    \/ \E k \in Callers, c \in Comps, h \in Hosts, t \in Waits : CheckBegin(k, c, h, t)
    \/ \E k \in Callers : CheckPoll(k)
    \/ \E k \in Callers : CheckReturn(k)
    \/ \E h \in Hosts, m \in CustomMessages : StartSlaveBegin(h, m)
    \/ StartSlavePoll
    \/ StartSlaveTimeout
    \/ StartSlaveReturn
    \/ SlaveQuitBegin
    \/ SlaveQuitWait
    \/ SlaveQuitEnd

\* the UI server's reactor and workers, and the ControlCenter's events
UIServerNext ==
    \/ UIAccept
    \/ \E c \in UIConns, a \in DOMAIN receiver_mapping, args \in {<<>>, <<"x">>} :
          UIRead(c, a, args)
    \/ \E c \in UIConns : UIRead(c, "unsubscribe", <<>>)
    \/ \E c \in UIConns : UIReadQuit(c)
    \/ UIJoined
    \/ UISigint
    \/ \E c \in UIConns : UIReadEOF(c)
    \/ \E c \in UIConns : UIWrite(c)
    \/ UISendall
    \/ UIProcessEvents
    \/ UIFanOut
    \/ UISetHostState
    \/ UIProcessDone
    \/ UILoopExit
    \/ \E e \in DisconnectEvents : CCPublish(e)
    \/ \E w \in BagToSet(ui_workers) : UIUnsubscribe(w)
    \/ \E w \in BagToSet(ui_workers) : UIRespond(w)
    \/ \E w \in BagToSet(ui_workers) : UICleanup(w)

Next == SlaveServerNext \/ MasterNext \/ UIServerNext

Spec == Init /\ [][Next]_vars

\* Each specification below runs the threads a group of claims is about.

\* start_component, stop_component, start_clone_session against a registry
\* that slaves enter, authenticate in and leave
SendNext ==
    \/ SlaveAccept
    \/ \E c \in SlaveConns, h \in Hosts : SlaveRead(c, "auth", <<h>>)
    \/ \E c \in SlaveConns : SlaveReadEOF(c)
    \/ \E w \in BagToSet(slave_workers) : SlaveAuth(w)
    \/ \E c \in Comps, h \in Hosts : start_component(c, h)
    \/ \E c \in Comps, h \in Hosts : stop_component(c, h)
    \/ \E c \in Comps, h \in Hosts : start_clone_session(c, h)

SpecSend == Init /\ [][SendNext]_vars

\* kill_slaves against a registry that slaves enter and leave
KillNext ==
    \/ SlaveAccept
    \/ \E c \in SlaveConns : SlaveRead(c, "unsubscribe", <<>>)
    \/ \E c \in SlaveConns : SlaveReadError(c)
    \/ \E w \in BagToSet(slave_workers) : SlaveUnsubscribe(w)
    \/ \E full \in BOOLEAN : kill_slaves(full)
    \/ \E c \in SlaveConns : SlaveWrite(c)
    \/ SlaveSendall

SpecKill == Init /\ [][KillNext]_vars

\* a slave that has not yet sent its auth frame on connection c
NotYetAuth(c) ==
    /\ c \notin DOMAIN port_mapping
    /\ \A w \in BagToSet(slave_workers) :
          ~(w.action = "auth" /\ w.connection = c)

\* check_component calls against slaves that authenticate once and answer,
\* or do not
CheckNext ==
    \/ SlaveAccept
    \/ \E c \in SlaveConns, h \in Hosts :
          NotYetAuth(c) /\ SlaveRead(c, "auth", <<h>>)
    \/ \E c \in SlaveConns, e \in CheckEvents : SlaveRead(c, "queue_event", <<e>>)
    \/ \E w \in BagToSet(slave_workers) : SlaveAuth(w)
    \/ \E w \in BagToSet(slave_workers) : ForwardPut(w)
    \/ \E w \in BagToSet(slave_workers) : ForwardBuffer(w)
    \/ \E k \in Callers, c \in Comps, h \in Hosts, t \in Waits : CheckBegin(k, c, h, t)
    \/ \E k \in Callers : CheckPoll(k)
    \/ \E k \in Callers : CheckReturn(k)

SpecCheck == Init /\ [][CheckNext]_vars

\* a slave connection lost before or after its auth frame was handled
DisconnectNext ==
    \/ SlaveAccept
    \/ \E c \in SlaveConns, h \in Hosts :
          NotYetAuth(c) /\ SlaveRead(c, "auth", <<h>>)
    \/ \E w \in BagToSet(slave_workers) : SlaveAuth(w)
    \/ \E c \in SlaveConns : SlaveReadEOF(c)
    \/ \E c \in SlaveConns : SlaveReadError(c)

SpecDisconnect == Init /\ [][DisconnectNext]_vars

\* events from slaves (here about host h1) and from the ControlCenter (here
\* about host h2) fanned out to UI clients that subscribe and unsubscribe
EventsNext ==
    \/ SlaveAccept
    \/ \E c \in SlaveConns : SlaveRead(c, "queue_event", <<DisconnectEvent("h1")>>)
    \/ \E w \in BagToSet(slave_workers) : ForwardPut(w)
    \/ CCPublish(DisconnectEvent("h2"))
    \/ UIAccept
    \/ \E c \in UIConns : UIRead(c, "unsubscribe", <<>>)
    \/ \E w \in BagToSet(ui_workers) : UIUnsubscribe(w)
    \/ UIProcessEvents
    \/ UIFanOut
    \/ UISetHostState
    \/ UIProcessDone

SpecEvents == Init /\ [][EventsNext]_vars

\* the argument lists a UI client sends with a request of the response table
RequestArgs == {<<>>, <<"x">>}

\* requests of the response table from UI clients that come and go
RespondNext ==
    \/ UIAccept
    \/ \E c \in UIConns, a \in DOMAIN receiver_mapping, args \in RequestArgs :
          UIRead(c, a, args)
    \/ \E c \in UIConns : UIReadEOF(c)
    \/ \E w \in BagToSet(ui_workers) : UIRespond(w)

SpecRespond == Init /\ [][RespondNext]_vars

\* both reactors writing what a master-side caller, a worker and the event
\* fan-out enqueue
OrderNext ==
    \/ SlaveAccept
    \/ \E full \in BOOLEAN : kill_slaves(full)
    \/ \E c \in SlaveConns : SlaveWrite(c)
    \/ SlaveSendall
    \/ UIAccept
    \/ \E c \in UIConns : UIRead(c, "get_conf", <<>>)
    \/ \E w \in BagToSet(ui_workers) : UIRespond(w)
    \/ \E e \in CheckEvents : CCPublish(e)
    \/ UIProcessEvents
    \/ UIFanOut
    \/ UIProcessDone
    \/ \E c \in UIConns : UIWrite(c)
    \/ UISendall

SpecOrder == Init /\ [][OrderNext]_vars

\* connections of both servers from accept to unsubscribe, loss and shutdown
LifeNext ==
    \/ SlaveAccept
    \/ \E c \in SlaveConns : SlaveRead(c, "unsubscribe", <<>>)
    \/ \E w \in BagToSet(slave_workers) : SlaveUnsubscribe(w)
    \/ \E c \in SlaveConns : SlaveReadError(c)
    \/ SlaveQuitBegin
    \/ SlaveQuitWait
    \/ SlaveQuitEnd
    \/ SlaveLoopExit
    \/ UIAccept
    \/ \E c \in UIConns : UIRead(c, "unsubscribe", <<>>)
    \/ \E w \in BagToSet(ui_workers) : UIUnsubscribe(w)
    \/ \E c \in UIConns : UIReadEOF(c)
    \/ \E c \in UIConns : UIReadQuit(c)
    \/ \E w \in BagToSet(ui_workers) : UICleanup(w)
    \/ UIJoined
    \/ UISigint
    \/ UILoopExit

SpecLife == Init /\ [][LifeNext]_vars

\* CheckEvents from slaves forwarded by workers while the UI reactor drains
\* the notify queue
BufferNext ==
    \/ SlaveAccept
    \/ \E c \in SlaveConns, e \in CheckEvents : SlaveRead(c, "queue_event", <<e>>)
    \/ \E w \in BagToSet(slave_workers) : ForwardPut(w)
    \/ \E w \in BagToSet(slave_workers) : ForwardBuffer(w)
    \/ UIProcessEvents
    \/ UIFanOut
    \/ UIProcessDone

SpecBuffer == Init /\ [][BufferNext]_vars

\* the UI server fans events out to its clients, writes them, and is shut
\* down by a quit action or by SIGINT
ShutdownNext ==
    \/ UIAccept
    \/ \E e \in CheckEvents : CCPublish(e)
    \/ UIProcessEvents
    \/ UIFanOut
    \/ UIProcessDone
    \/ \E c \in UIConns : UIWrite(c)
    \/ UISendall
    \/ \E c \in UIConns : UIReadQuit(c)
    \/ \E w \in BagToSet(ui_workers) : UICleanup(w)
    \/ UIJoined
    \/ UISigint
    \/ UILoopExit

SpecShutdown == Init /\ [][ShutdownNext]_vars

\* the slave server is stopped while frames for its slaves are pending
DrainNext ==
    \/ SlaveAccept
    \/ \E c \in SlaveConns : SlaveRead(c, "unsubscribe", <<>>)
    \/ \E w \in BagToSet(slave_workers) : SlaveUnsubscribe(w)
    \/ \E full \in BOOLEAN : kill_slaves(full)
    \/ \E c \in SlaveConns : SlaveWrite(c)
    \/ SlaveSendall
    \/ SlaveQuitBegin
    \/ SlaveQuitWait
    \/ SlaveQuitEnd
    \/ SlaveLoopExit

SpecDrain == Init /\ [][DrainNext]_vars

\* start_slave called while slaves connect, authenticate and are lost
StartNext ==
    \/ SlaveAccept
    \/ \E c \in SlaveConns, h \in Hosts :
          NotYetAuth(c) /\ SlaveRead(c, "auth", <<h>>)
    \/ \E w \in BagToSet(slave_workers) : SlaveAuth(w)
    \/ \E c \in SlaveConns : SlaveReadEOF(c)
    \/ \E h \in Hosts, m \in CustomMessages : StartSlaveBegin(h, m)
    \/ StartSlavePoll
    \/ StartSlaveTimeout
    \/ StartSlaveReturn
    \/ \E c \in SlaveConns : SlaveWrite(c)
    \/ SlaveSendall

SpecStart == Init /\ [][StartNext]_vars

\* the scheduler lets the thread that called start_slave run: its loop
\* iterations and its return are taken when they stay possible
SpecStartFair ==
    SpecStart /\ WF_vars(StartSlavePoll) /\ WF_vars(StartSlaveTimeout)

\* the fan-out loop of the UI reactor taken statement by statement while
\* workers handle unsubscribe frames of the UI clients; _quit, which
\* replaces the registry by a new dict and leaves the iterator on the old
\* one, is not part of this specification
RegistryNext ==
    \/ UIAccept
    \/ \E c \in UIConns : UIRead(c, "unsubscribe", <<>>)
    \/ \E w \in BagToSet(ui_workers) : UIUnsubscribe(w)
    \/ \E e \in DisconnectEvents : CCPublish(e)
    \/ UIProcessEvents
    \/ UIFanOutBegin
    \/ UIFanOutStep
    \/ UISetHostState
    \/ UIProcessDone

SpecRegistry == Init /\ [][RegistryNext]_vars

\* UI clients whose frames arrive cut short, while events are fanned out
\* and written
FramingNext ==
    \/ UIAccept
    \/ \E e \in CheckEvents : CCPublish(e)
    \/ UIProcessEvents
    \/ UIFanOut
    \/ UIProcessDone
    \/ \E c \in UIConns : UIWrite(c)
    \/ UISendall
    \/ \E c \in UIConns : UIReadShortHeader(c)
    \/ \E c \in UIConns : UIReadShortBody(c)

SpecFraming == Init /\ [][FramingNext]_vars

\* calls of recvall on sockets that deliver some packets and then stay
\* silent or are closed by the peer
RecvNext ==
    \/ \E n \in 0..MaxLen, stream \in Streams, closed \in BOOLEAN :
          RecvallCall(n, stream, closed)
    \/ RecvallStep
    \/ RecvallDone

SpecRecv == Init /\ [][RecvNext]_vars

\* the thread that called recvall is scheduled
SpecRecvFair == SpecRecv /\ WF_vars(RecvallStep)

\* frames for authenticated slaves enqueued by start_component and written
\* by the reactor, while slaves are lost
DequeueNext ==
    \/ SlaveAccept
    \/ \E c \in SlaveConns, h \in Hosts :
          NotYetAuth(c) /\ SlaveRead(c, "auth", <<h>>)
    \/ \E w \in BagToSet(slave_workers) : SlaveAuth(w)
    \/ \E comp \in Comps, h \in Hosts : start_component(comp, h)
    \/ \E c \in SlaveConns : SlaveReadEOF(c)
    \/ \E c \in SlaveConns : SlaveWrite(c)
    \/ SlaveSendall

\* the reactor thread is scheduled, and its loop over the ready sockets
\* calls write for every connection that stays writable
SpecDequeue ==
    /\ Init
    /\ [][DequeueNext]_vars
    /\ \A c \in SlaveConns : WF_vars(SlaveWrite(c))
    /\ WF_vars(SlaveSendall)

\* ---------------------------------------------------------------- claims

\* no connection of the registry has identity hostname
NoIdentity(hostname) ==
    \A c \in slave_send_queues : Get(port_mapping, c) # hostname

\* C1: a start_component, stop_component or start_clone_session call for a
\* hostname that no registered connection identifies as ends with
\* SlaveNotReachableException and leaves every slave queue as it was.
C1_NotReachableRaises ==
    [][\A comp \in Comps, h \in Hosts :
          (/\ NoIdentity(h)
           /\ \/ start_component(comp, h)
              \/ stop_component(comp, h)
              \/ start_clone_session(comp, h))
          => /\ last_result' = "SlaveNotReachableException"
             /\ slave_queue' = slave_queue
             /\ slave_enq' = slave_enq]_vars

\* C1 witness: a call has raised while a connection with another identity
\* was registered, and that connection's queue is still empty
C1_Witness ==
    /\ last_result = "SlaveNotReachableException"
    /\ \E c \in slave_send_queues :
          /\ c \in DOMAIN port_mapping
          /\ \E h \in Hosts : NoIdentity(h)
          /\ slave_enq[c] = <<>>

\* a call that found no connection for its hostname: it enqueued nothing
Unmatched(call) == call.pc \in {"ret", "done"} /\ call.sent = 0

\* a call that found a connection and enqueued its check frame
Matched(call) == call.pc \in {"wait", "ret", "done"} /\ call.sent = 1

\* C2 as stated: a check_component call for a hostname that no registered
\* connection identifies as ends with SlaveNotReachableException.
C2_CheckRaises ==
    \A k \in Callers :
        (cc[k].pc = "done" /\ Unmatched(cc[k]))
            => cc[k].ret = "SlaveNotReachableException"

\* C2: a check_component call for a hostname that no registered connection
\* identifies as enqueues no frame, skips the wait, and returns: its result
\* is UNREACHABLE, or else the state of a CheckEvent for comp_id that
\* reached check_buffer between the call's clear and its final read.
C2_CheckUnmatchedReturns ==
    /\ [][\A k \in Callers, comp \in Comps, h \in Hosts, t \in Waits :
             (NoIdentity(h) /\ CheckBegin(k, comp, h, t))
             => /\ slave_queue' = slave_queue
                /\ slave_enq' = slave_enq
                /\ cc'[k].pc = "ret"
                /\ cc'[k].sent = 0]_vars
    /\ [](\A k \in Callers :
             (cc[k].pc = "done" /\ Unmatched(cc[k]))
                => cc[k].ret \in {UNREACHABLE, cc[k].answer} \ {None})

\* C2 witness: a call made while a slave with another identity was
\* registered has returned UNREACHABLE, and no queue was given a frame
C2_Witness ==
    /\ \E k \in Callers :
          cc[k].pc = "done" /\ Unmatched(cc[k]) /\ cc[k].ret = UNREACHABLE
    /\ \E c \in slave_send_queues : c \in DOMAIN port_mapping
    /\ \A c \in SlaveConns : slave_enq[c] = <<>>

\* C3: a check_component call that has enqueued its check frame and during
\* whose wait a CheckEvent{comp_id, s} reached check_buffer returns s.
C3_AnswerReturned ==
    \A k \in Callers :
        (cc[k].pc = "done" /\ Matched(cc[k]) /\ cc[k].answer # None)
            => cc[k].ret = cc[k].answer

\* the frames of action a in a sequence of frames
RECURSIVE CountAction(_, _)
CountAction(q, a) ==
    IF q = <<>> THEN 0
    ELSE (IF Head(q).action = a THEN 1 ELSE 0) + CountAction(Tail(q), a)

EventFrame(event) == serialize_request("queue_event", <<event>>)

ResponseFrame(action) ==
    serialize_request(ResponseAction(action), HandlerReturn(action))

\* C6 as stated: the handler of every request of the response table
\* received from connection c puts exactly one response frame on c's queue.
C6_ResponseEnqueued ==
    [][\A w \in BagToSet(ui_workers) :
          UIRespond(w)
          => ui_enq' = [ui_enq EXCEPT ![w.connection] =
                           Append(@, ResponseFrame(w.action))]]_vars

\* C6: the handler of a request of the response table received from
\* connection c puts exactly one <action>_response frame on c's queue when
\* the request carries no arguments and c is still registered as the
\* handler runs, and puts no frame on c's queue otherwise; in every case
\* no other connection's queue is given a frame.
C6_ResponseToRequester ==
    [][\A w \in BagToSet(ui_workers) :
          UIRespond(w)
          => /\ \A c \in UIConns \ {w.connection} :
                   ui_enq'[c] = ui_enq[c] /\ ui_queue'[c] = ui_queue[c]
             /\ IF w.args = <<>> /\ w.connection \in ui_send_queues
                THEN /\ ui_enq'[w.connection] =
                           Append(ui_enq[w.connection], ResponseFrame(w.action))
                     /\ ui_queue'[w.connection] =
                           Append(ui_queue[w.connection], ResponseFrame(w.action))
                ELSE /\ ui_enq'[w.connection] = ui_enq[w.connection]
                     /\ ui_queue'[w.connection] = ui_queue[w.connection]]_vars

\* C6 witness: of two registered UI connections the one that sent
\* get_host_states holds its one response, the current host-state map, and
\* the other holds nothing; no request is pending
C6_Witness ==
    /\ ui_workers = EmptyBag
    /\ ui_send_queues = {1, 2}
    /\ ui_enq[2] = <<serialize_request("get_host_states_response",
                                        <<host_states>>)>>
    /\ ui_enq[1] = <<>>

\* the slave has sent auth(hostname) on connection c: the frame was read,
\* and its worker has run or is still to run
AuthSent(c, hostname) ==
    \/ Get(port_mapping, c) = hostname
    \/ \E w \in BagToSet(slave_workers) :
          w.action = "auth" /\ w.connection = c /\ w.args = <<hostname>>

\* C7: a read that returns EOF on a slave connection whose auth(hostname)
\* frame was read before unregisters and closes the connection and puts
\* exactly one SlaveDisconnectEvent carrying hostname on the notify queue.
C7_DisconnectEvent ==
    [][\A c \in SlaveConns, h \in Hosts :
          (AuthSent(c, h) /\ SlaveReadEOF(c))
          => /\ c \notin slave_send_queues'
             /\ c \notin slave_sel'
             /\ slave_conn'[c] = "closed"
             /\ notify_queue' =
                   Append(notify_queue, SlaveDisconnectEvent(h, c))]_vars

InHand(next_msg, c) ==
    IF next_msg # <<>> /\ next_msg[1] = c THEN <<next_msg[2]>> ELSE <<>>

\* C9: on every connection of either server the frames passed to the
\* socket, then the frame the reactor holds, then the frames still queued
\* are the frames that were enqueued, in the order they were enqueued; a
\* queue loses a frame only in the reactor's write callback, and a socket
\* is written only by the reactor.
C9_WrittenInOrder ==
    /\ [](\A c \in SlaveConns :
             slave_wire[c] \o InHand(slave_next_msg, c) \o slave_queue[c]
                = slave_enq[c])
    /\ [](\A c \in UIConns :
             ui_wire[c] \o InHand(ui_next_msg, c) \o ui_queue[c] = ui_enq[c])
    /\ [][\A c \in SlaveConns :
             Len(slave_queue'[c]) < Len(slave_queue[c]) => SlaveWrite(c)]_vars
    /\ [][\A c \in UIConns :
             Len(ui_queue'[c]) < Len(ui_queue[c]) => UIWrite(c)]_vars
    /\ [][slave_wire' # slave_wire => SlaveSendall]_vars
    /\ [][ui_wire' # ui_wire => UISendall]_vars

\* C9 witness: a slave connection and a UI connection have each been
\* written two different frames, in the order they were enqueued
C9_Witness ==
    /\ \E c \in SlaveConns :
          /\ Len(slave_wire[c]) = 2
          /\ slave_wire[c][1] # slave_wire[c][2]
          /\ slave_wire[c] = slave_enq[c]
    /\ \E c \in UIConns :
          /\ Len(ui_wire[c]) = 2
          /\ ui_wire[c][1] # ui_wire[c][2]
          /\ ui_wire[c] = ui_enq[c]

\* C10: every accepted connection that is not closed has its entry in the
\* registry of its server.
C10_OpenHasQueue ==
    /\ \A c \in SlaveConns : slave_conn[c] = "open" => c \in slave_send_queues
    /\ \A c \in UIConns : ui_conn[c] = "open" => c \in ui_send_queues

\* C11: whenever the reactor of the slave server passes a message to
\* connection.sendall, the connection has not been closed.
C11_NoWriteToClosed ==
    [][SlaveSendall => slave_conn[slave_next_msg[1]] = "open"]_vars

\* C12: when the UI reactor takes the events off the notify queue, every
\* CheckEvent{comp_id, s} among them has already been stored:
\* check_buffer[comp_id] = s.
C12_BufferedBeforeDrain ==
    [][UIProcessEvents
        => \A i \in 1..Len(notify_queue) :
              notify_queue[i].type = "CheckEvent"
              => Get(check_buffer, notify_queue[i].comp_id)
                    = notify_queue[i].check_state]_vars

\* C13: when _process_events puts the queue_event frame of a
\* DisconnectEvent{h} on the queues of the UI connections, host_states[h]
\* has already been set to (0, DISCONNECTED).
C13_HostStateBeforeEnqueue ==
    [][(UIFanOut /\ Head(event_queue).type = "DisconnectEvent"
                 /\ ui_send_queues # {})
        => host_states[Head(event_queue).host_name] = DISCONNECTED]_vars

\* C14: accepting a slave socket puts nothing on the notify queue, and the
\* processing of a connection's auth(hostname) puts a SlaveReconnectEvent
\* for hostname on the notify queue.
C14_AuthEmitsReconnect ==
    /\ [][SlaveAccept => notify_queue' = notify_queue]_vars
    /\ [][\A w \in BagToSet(slave_workers) :
            SlaveAuth(w)
            => notify_queue' =
                  Append(notify_queue,
                         SlaveReconnectEvent(w.args[1], w.connection))]_vars

\* C15: no two connections of the registry of the slave server carry the
\* same hostname in the identity map.
C15_IdentityOneToOne ==
    \A c1 \in slave_send_queues, c2 \in slave_send_queues :
        (c1 # c2 /\ Get(port_mapping, c1) # None)
        => Get(port_mapping, c1) # Get(port_mapping, c2)

\* C16: when the reactor of the UI server has left its loop and closed the
\* selector, every frame that was put on the queue of a UI connection still
\* open has been written to it.
C16_DrainedOnShutdown ==
    ui_pc = "exited"
    => \A c \in UIConns : ui_conn[c] = "open" => ui_wire[c] = ui_enq[c]

\* p is an initial part of s
IsPrefix(p, s) == Len(p) <= Len(s) /\ SubSeq(s, 1, Len(p)) = p

\* C17: keep_running of the slave server becomes false, and its registry
\* is cleared, only by the last step of _quit; that step is taken only
\* when every queue of the copy made as _quit began has been seen empty,
\* and then every frame put on such a queue before _quit began has been
\* dequeued by the reactor (passed to the socket or held for sendall).
C17_DrainBeforeStop ==
    /\ [][(slave_keep_running /\ ~slave_keep_running') => SlaveQuitEnd]_vars
    /\ [][SlaveQuitWait => slave_queue[Head(quit_copy)] = <<>>]_vars
    /\ [][SlaveQuitEnd
            => /\ slave_send_queues' = {}
               /\ ~slave_keep_running'
               /\ \A c \in SlaveConns :
                     IsPrefix(quit_begin[c].enq,
                              slave_wire[c] \o InHand(slave_next_msg, c))]_vars

\* C17 witness: _quit has ended after it began with two frames pending on
\* the queue of a registered slave connection
C17_Witness ==
    /\ quit_pc = "done"
    /\ ~slave_keep_running
    /\ \E c \in SlaveConns : Len(quit_begin[c].pending) = 2

\* C18: the step at which a start_slave(hostname, custom_messages) call
\* turns to returning True, in the pre-check or in the polling loop, puts
\* one SlaveReconnectEvent for hostname on the notify queue and the custom
\* messages, once each and in order, at the end of the queue of one
\* registered connection whose identity is hostname, and changes no other
\* queue; every other step of the call leaves the notify queue and the
\* slave queues as they are.
C18_StartSlaveSuccess ==
    /\ [][(ss.ret # "True" /\ ss'.ret = "True")
            => \E c \in slave_send_queues :
                  /\ Get(port_mapping, c) = ss'.hostname
                  /\ notify_queue' =
                        Append(notify_queue,
                               SlaveReconnectEvent(ss'.hostname, c))
                  /\ slave_enq' =
                        [slave_enq EXCEPT ![c] = @ \o ss'.custom_messages]
                  /\ slave_queue' =
                        [slave_queue EXCEPT ![c] = @ \o ss'.custom_messages]]_vars
    /\ [][(ss' # ss /\ ss'.ret # "True")
            => UNCHANGED <<notify_queue, slave_enq, slave_queue>>]_vars

\* C18 witness: a call with two custom messages has returned True from the
\* polling loop after one poll that found nothing; the connection of the
\* hostname holds the two messages in order and the notify queue the event
C18_Witness ==
    /\ ss.pc = "done"
    /\ ss.ret = "True"
    /\ ss.polls = StartSlavePolls - 1
    /\ ss.custom_messages = <<"m1", "m2">>
    /\ \E c \in slave_send_queues :
          /\ Get(port_mapping, c) = ss.hostname
          /\ slave_queue[c] = <<"m1", "m2">>
          /\ notify_queue = <<SlaveReconnectEvent(ss.hostname, c)>>
          /\ \A d \in SlaveConns \ {c} : slave_enq[d] = <<>>

\* C19: a start_slave call that is polling ends; it returns False when
\* its polls are used up, and whenever it ends with no registered
\* connection of the hostname; the steps of a call other than the one
\* that turns to True put nothing on the notify queue or on a slave queue,
\* and when False is returned the log handler of the host is registered.
C19_StartSlaveTimeout ==
    /\ (ss.pc = "poll") ~> (ss.pc = "done")
    /\ [][StartSlaveTimeout
            => /\ ss'.ret = "False"
               /\ ss.hostname \in slave_log_handlers'
               /\ UNCHANGED <<notify_queue, slave_enq, slave_queue>>]_vars
    /\ [][(ss.pc = "poll" /\ ss'.pc = "done"
              /\ SlaveConnection(ss.hostname) = {})
            => ss'.ret = "False"]_vars
    /\ [][(ss.pc = "poll" /\ ss'.pc = "poll" /\ ss' # ss)
            => UNCHANGED <<notify_queue, slave_enq, slave_queue>>]_vars
    /\ [][(ss.pc = "idle" /\ ss'.pc = "poll")
            => UNCHANGED <<notify_queue, slave_enq, slave_queue>>]_vars

\* C19 witness: a call has returned False with no slave connected at all;
\* nothing is on the notify queue, and the log handler is registered
C19_Witness ==
    /\ ss.pc = "done"
    /\ ss.ret = "False"
    /\ slave_send_queues = {}
    /\ notify_queue = <<>>
    /\ \A c \in SlaveConns : slave_enq[c] = <<>>
    /\ slave_log_handlers = {ss.hostname}

\* C20: in no state is the reactor thread of a server waiting, in
\* worker.join(), for the handler of an action to finish.
C20_ReactorNeverWaits ==
    ui_pc # "join" /\ slave_pc # "join"

\* C21: the registry of the UI server is not changed while the fan-out
\* loop of _process_events is iterating over it.
C21_RegistrySerialized ==
    [][ui_send_queues' # ui_send_queues => ui_iter = <<>>]_vars

\* C22: a read on a UI connection that finds a header of fewer than 4
\* bytes, or a body not fully available, unregisters and closes exactly
\* that connection; the reactor keeps running and every other connection
\* stays registered with its queue unchanged.
C22_FramingErrorDrops ==
    [][\A c \in UIConns :
          ((UIReadShortHeader(c) \/ UIReadShortBody(c)) /\ c \in ui_send_queues)
          => /\ ui_send_queues' = ui_send_queues \ {c}
             /\ ui_sel' = ui_sel \ {c}
             /\ ui_conn' = [ui_conn EXCEPT ![c] = "closed"]
             /\ ui_pc' = "loop"
             /\ ui_keep_running'
             /\ \A d \in UIConns \ {c} : ui_queue'[d] = ui_queue[d]]_vars

\* C23: a call of recvall ends; when it returns data, data is the first n
\* bytes that reached the socket, in order; and the iteration in which
\* recv reports EOF before n bytes have arrived ends the call, returning
\* None.
C23_RecvallTerminates ==
    /\ [][(rv.pc = "loop" /\ rv'.pc = "returned")
            => rv'.data = SubSeq(rv.sent, 1, rv.n)]_vars
    /\ [][(rv.pc = "loop" /\ rv'.eof /\ Len(rv'.data) < rv'.n)
            => rv'.pc = "none"]_vars
    /\ (rv.pc = "loop") ~> (rv.pc # "loop")

\* C24: every removal of a connection from a registry, by the reactor on
\* EOF or on a socket error and by an unsubscribe worker, finds the
\* connection in the registry; and a reactor thread is not ended by an
\* exception while keep_running is true.
C24_RemovalFindsConnection ==
    /\ [][\A w \in BagToSet(ui_workers) :
            UIUnsubscribe(w) => w.connection \in ui_send_queues]_vars
    /\ [][\A w \in BagToSet(slave_workers) :
            SlaveUnsubscribe(w) => w.connection \in slave_send_queues]_vars
    /\ [][\A c \in UIConns : UIReadEOF(c) => c \in ui_send_queues]_vars
    /\ [][\A c \in SlaveConns :
            (SlaveReadEOF(c) \/ SlaveReadError(c))
            => c \in slave_send_queues]_vars
    /\ [](ui_pc = "crashed" => ~ui_keep_running)
    /\ [](slave_pc = "crashed" => ~slave_keep_running)

\* C25: when two check_component calls for the same comp_id have both
\* enqueued their check frame and a CheckEvent{comp_id, s} reached
\* check_buffer during the wait of each, both calls return s.
C25_OverlappingChecks ==
    \A k1 \in Callers, k2 \in Callers :
        (/\ k1 # k2
         /\ cc[k1].pc = "done" /\ Matched(cc[k1])
         /\ cc[k2].pc = "done" /\ Matched(cc[k2])
         /\ cc[k1].comp_id = cc[k2].comp_id
         /\ cc[k1].answer # None
         /\ cc[k2].answer # None)
        => (cc[k1].ret = cc[k1].answer /\ cc[k2].ret = cc[k2].answer)

\* C26: the n-th frame put on the queue of a slave connection is in the
\* end taken off by the reactor's write callback, unless the connection
\* leaves the registry or keep_running is cleared; a write takes one frame;
\* and no queue that is out of the registry holds a frame.
C26_EventuallyDequeued ==
    /\ \A c \in SlaveConns, n \in 1..MaxQueue :
          (Len(slave_enq[c]) >= n)
             ~> (\/ Len(slave_wire[c] \o InHand(slave_next_msg, c)) >= n
                 \/ c \notin slave_send_queues
                 \/ ~slave_keep_running)
    /\ [][\A c \in SlaveConns :
            SlaveWrite(c) => Len(slave_queue'[c]) = Len(slave_queue[c]) - 1]_vars
    /\ [](\A c \in SlaveConns :
             slave_queue[c] # <<>> => c \in slave_send_queues)

====
